---- MODULE Spec2Model ----
(***************************************************************************)
(* A model of wiki-search: the weighted link graph (WikiGraph) built from  *)
(* an archive, its two traversals (ClosestPagesIter and get_close_titles), *)
(* bulk import and persistence.                                            *)
(*                                                                         *)
(* Distances and weights are f32 in the program.  A weight is i/total with *)
(* total <= MaxLinks, so every distance is a multiple of 1/Scale, where    *)
(* Scale is the least common multiple of 1..MaxLinks.  The model keeps     *)
(* every distance as the integer  distance * Scale.                        *)
(***************************************************************************)
EXTENDS Integers, Sequences, FiniteSets, TLC

\* Largest number of distinct links on one Page of the stores explored.
MaxLinks == 3

\* A string is the sequence of its characters, so that starts_with is
\* computed and not assumed.  The article paths of the model:
PathA == <<"A">>
PathB == <<"B">>
PathC == <<"C">>
\* a path that names no entry of the archive
PathZ == <<"Z">>

\* The interned vocabulary of the search specification: key k stands for
\* Vocabulary[k + 1] (lasso hands out dense keys starting at zero).
Vocabulary == <<PathA, PathB, PathC>>

Keys == 0 .. (Len(Vocabulary) - 1)

RECURSIVE Gcd(_, _)
Gcd(a, b) == IF b = 0 THEN a ELSE Gcd(b, a % b)

RECURSIVE LcmUpTo(_)
LcmUpTo(n) == IF n <= 1 THEN 1 ELSE (LcmUpTo(n - 1) * n) \div Gcd(LcmUpTo(n - 1), n)

\* One unit of distance (1_f32) in the model's integer representation.
Scale == LcmUpTo(MaxLinks)

Range(s) == {s[i] : i \in DOMAIN s}

Min(a, b) == IF a <= b THEN a ELSE b

\* Sequences over S of length at most n without a repeated element.
DistinctSeqs(S, n) ==
    {s \in UNION {[1 .. k -> S] : k \in 0 .. n} :
        \A i, j \in DOMAIN s : i /= j => s[i] /= s[j]}

(***************************************************************************)
(* Page::from_entry, second half: weights from the ordered link list.      *)
(***************************************************************************)

\* fn linear_distance(i, total) = i as f32 / total as f32
linear_distance_below(i, total) == ((i - 1) * Scale) \div total
linear_distance(i, total) == (i * Scale) \div total

\* 0-based position of the first occurrence of x in s.
FirstIndex(s, x) == (CHOOSE i \in DOMAIN s : s[i] = x /\ \A j \in 1 .. (i - 1) : s[j] /= x) - 1

\* The fold of lines 93-102: entry(spur).or_insert keeps the first index.
PageFromLinksByKey(all_links) ==
    LET total_links == Len(all_links)
    IN  [spur \in Range(all_links) |->
            [index |-> spur, weight |-> linear_distance(spur + 1, total_links)]]
PageFromLinks(all_links) ==
    LET total_links == Len(all_links)
    IN  [spur \in Range(all_links) |->
            LET i == FirstIndex(all_links, spur)
            IN  [index |-> i, weight |-> linear_distance(i + 1, total_links)]]

\* Every Page from_entry can build over the vocabulary.
Pages == {PageFromLinks(s) : s \in DistinctSeqs(Keys, MaxLinks)}

\* Every Graph Store over the vocabulary: a key has a Page or has none.
Stores == UNION {[S -> Pages] : S \in SUBSET Keys}

(***************************************************************************)
(* Query parameters.                                                       *)
(***************************************************************************)

\* Option<f32>
NoMax == [some |-> FALSE, value |-> 0]
SomeMax(d) == [some |-> TRUE, value |-> d]

\* min_distance: 0.0 and 2.0
MinChoices == {0, 2 * Scale}

\* max_distance: -1.0, 2.0 and 3.5
MaxChoices == {0 - Scale, 2 * Scale, (7 * Scale) \div 2}

CountChoices == {0, 1, 2}

VARIABLES
    link_to_page,       \* WikiGraph.link_to_page
    mode,               \* which query runs: "iter", "shortest" or "close"
    first_link,         \* the query's start key
    target_link,        \* find_shortest_path's target
    min_distance,
    max_distance,       \* Option<f32> (iterator) or f32 (get_close_titles)
    count,              \* get_close_titles' count
    visited,            \* HashSet<Spur>
    next_pages,         \* BinaryHeap<PrioritizedPage>
    link_to_path_info,  \* get_close_titles' HashMap<Spur, PathInfo>
    pc,                 \* "run" while the traversal loops, then "done"
    yielded,            \* history: the PathInfo values the iterator returned,
                        \* each with the node it was popped for
    expanded,           \* history: nodes whose Page was read, with distance
    discarded,          \* history: frontier entries popped and skipped
    shortest,           \* find_shortest_path's return value
    sample,             \* get_close_titles' return value
    archive,            \* the opened archive: its entries in iteration order
    interner,           \* WikiGraph.interner: key k resolves to interner[k + 1]
    ipc,                \* where the session is: "idle", "get_all", "panicked"
    cursor,             \* entry_iter: how many entries get_all has pulled
    workers,            \* the par_bridge closures of the current batch
    ops,                \* calls made on the session so far
    graph_file,         \* the artifact at WIKI_GRAPH_PATH
    interner_file,      \* the artifact at INTERNER_PATH
    last_op,            \* history: the last call that returned, with its result
    saved,              \* history: the session state at the last save_bin
    batch_base,         \* history: interner.len() when the batch was pulled
    zim_file,           \* the bytes of the file ZimReader::open maps
    reader,             \* what ZimReader::open returned
    html                \* history: the last get_article_html call, its result

ingest == <<archive, interner, ipc, cursor, workers, ops, graph_file,
            interner_file, last_op, saved, batch_base>>

\* The from-scratch reader of zim.rs: no operation of WikiGraph touches it.
zim == <<zim_file, reader, html>>

search == <<mode, first_link, target_link, min_distance, max_distance, count,
            visited, next_pages, link_to_path_info, pc, yielded, expanded,
            discarded, shortest, sample, zim>>

vars == <<link_to_page, search, ingest>>

\* Option<Vec<Spur>>
NonePath == [found |-> FALSE, path |-> <<>>]
SomePath(p) == [found |-> TRUE, path |-> p]

Last(s) == s[Len(s)]

(***************************************************************************)
(* The frontier.                                                           *)
(***************************************************************************)

\* The first entry pushed by iter_close_titles and get_close_titles.
FirstPage(link) == [priority |-> 0, link |-> link, path |-> <<link>>]

\* BinaryHeap::pop under Ord for PrioritizedPage, which compares
\* Reverse(priority) alone: an entry of least priority, ties arbitrary.
\* (No two entries of a traversal are equal: a path is pushed once.)
PopChoicesAny(heap) == heap
PopChoices(heap) == {p \in heap : \A q \in heap : p.priority <= q.priority}

\* self.visited.insert(p.link) returned true.
IsFreshAlways(p, seen) == TRUE
IsFresh(p, seen) == p.link \notin seen

\* max_distance.is_some_and(|m| d > m)
ExceedsMax(d, max) == max.some /\ d > max.value

\* The PrioritizedPage pushed for one link of the popped entry p.
PushedShort(p, link, info) ==
    [priority |-> p.priority + info.weight, link |-> link,
     path |-> Append(p.path, link)]
Pushed(p, link, info) ==
    [priority |-> p.priority + info.weight + Scale, link |-> link,
     path |-> Append(p.path, link)]

\* ClosestPagesIter::next, lines 392-414: the entries pushed for p.
IterSuccessorsRevisit(p, seen, max) ==
    IF p.link \in DOMAIN link_to_page
    THEN LET page == link_to_page[p.link]
         IN  {Pushed(p, link, page[link]) : link \in
                {l \in DOMAIN page :
                    ~ ExceedsMax(p.priority + page[l].weight + Scale, max)}}
    ELSE {}
IterSuccessors(p, seen, max) ==
    IF p.link \in DOMAIN link_to_page
    THEN LET page == link_to_page[p.link]
         IN  {Pushed(p, link, page[link]) : link \in
                {l \in DOMAIN page :
                    ~ (ExceedsMax(p.priority + page[l].weight + Scale, max)
                       \/ l \in seen)}}
    ELSE {}

\* get_close_titles, lines 263-289: the links that survive both `continue`s.
CloseLinks(p, seen, max) ==
    LET page == link_to_page[p.link]
    IN  {l \in DOMAIN page :
            /\ ~ (p.priority + page[l].weight + Scale > max)
            /\ l \notin seen}

\* link_to_path_info.entry(link).or_insert(..) for every surviving link whose
\* distance lies in [min_distance, max_distance].
CloseRecord(info, p, links, min, max) ==
    LET page == link_to_page[p.link]
        hit == {l \in links :
                   /\ Pushed(p, l, page[l]).priority >= min
                   /\ Pushed(p, l, page[l]).priority <= max}
    IN  [l \in DOMAIN info \cup hit |->
            IF l \in DOMAIN info THEN info[l]
            ELSE [distance |-> Pushed(p, l, page[l]).priority,
                  path |-> Pushed(p, l, page[l]).path]]

EmptyMap == [l \in {} |-> 0]

\* The session around a query: loaded, idle, nothing in flight.
NoFile == [present |-> FALSE, torn |-> FALSE, data |-> <<>>]
NoOp == [op |-> "none"]
NoSave == [whole |-> FALSE, link_to_page |-> EmptyMap, interner |-> <<>>]

\* No file has been handed to ZimReader::open.
NoReader == [status |-> "unopened"]
NoHtml == [called |-> FALSE]

ZimAtRest ==
    /\ zim_file = <<>>
    /\ reader = NoReader
    /\ html = NoHtml

IngestAtRest ==
    /\ archive = <<>>
    /\ interner = Vocabulary
    /\ ipc = "idle"
    /\ cursor = 0
    /\ workers = <<>>
    /\ ops = 0
    /\ graph_file = NoFile
    /\ interner_file = NoFile
    /\ last_op = NoOp
    /\ saved = NoSave
    /\ batch_base = 0

(***************************************************************************)
(* Init: any store, any query.                                             *)
(***************************************************************************)
Init ==
    /\ link_to_page \in Stores
    /\ first_link \in Keys
    /\ \/ /\ mode = "shortest"
          /\ target_link \in Keys
          /\ min_distance = 0
          /\ max_distance = NoMax
          /\ count = 0
       \/ /\ mode = "iter"
          /\ target_link = first_link
          /\ min_distance \in MinChoices
          /\ max_distance \in {NoMax} \cup {SomeMax(d) : d \in MaxChoices}
          /\ count = 0
       \/ /\ mode = "close"
          /\ target_link = first_link
          /\ min_distance \in MinChoices
          /\ max_distance \in {SomeMax(d) : d \in MaxChoices}
          /\ count \in CountChoices
    /\ visited = {}
    /\ next_pages = {FirstPage(first_link)}
    /\ link_to_path_info = EmptyMap
    /\ pc = "run"
    /\ yielded = <<>>
    /\ expanded = {}
    /\ discarded = {}
    /\ shortest = NonePath
    /\ sample = {}
    /\ IngestAtRest
    /\ ZimAtRest

IterModes == {"iter", "shortest"}

\* What a traversal only reads: the store, the query, the rest of the session.
query == <<link_to_page, mode, first_link, target_link, min_distance,
           max_distance, count, ingest, zim>>

(***************************************************************************)
(* ClosestPagesIter::next, one turn of its while loop per action, as       *)
(* pulled by find_shortest_path (filter_map(..).next()) or drained.        *)
(***************************************************************************)

\* next_pages.pop() is None: next returns None.
IterExhausted ==
    /\ mode \in IterModes /\ pc = "run"
    /\ next_pages = {}
    /\ pc' = "done"
    /\ UNCHANGED <<query, visited, next_pages, link_to_path_info, yielded,
                   expanded, discarded, shortest, sample>>

\* lines 377-379: already visited, continue.
IterSkipVisitedPeek ==
    /\ mode \in IterModes /\ pc = "run"
    /\ \E p \in PopChoices(next_pages) :
        /\ ~ IsFresh(p, visited)
        /\ next_pages' = next_pages
        /\ discarded' = discarded \cup {p}
    /\ UNCHANGED <<query, visited, link_to_path_info, pc, yielded, expanded,
                   shortest, sample>>
IterSkipVisited ==
    /\ mode \in IterModes /\ pc = "run"
    /\ \E p \in PopChoices(next_pages) :
        /\ ~ IsFresh(p, visited)
        /\ next_pages' = next_pages \ {p}
        /\ discarded' = discarded \cup {p}
    /\ UNCHANGED <<query, visited, link_to_path_info, pc, yielded, expanded,
                   shortest, sample>>

\* lines 384-389: the popped distance exceeds max_distance, return None.
IterStopAtMax ==
    /\ mode \in IterModes /\ pc = "run"
    /\ \E p \in PopChoices(next_pages) :
        /\ IsFresh(p, visited)
        /\ ExceedsMax(p.priority, max_distance)
        /\ visited' = visited \cup {p.link}
        /\ next_pages' = next_pages \ {p}
    /\ pc' = "done"
    /\ UNCHANGED <<query, link_to_path_info, yielded, expanded, discarded,
                   shortest, sample>>

\* find_shortest_path's filter_map(..).next(): the pull that returns a path
\* ending in the target is the last one.
IsTargetNever(p) == FALSE
IsTarget(p) == mode = "shortest" /\ Last(p.path) = target_link

\* lines 391-426: push the neighbours, then return the page when its
\* distance is in range; find_shortest_path stops at its target.
IterExpand ==
    /\ mode \in IterModes /\ pc = "run"
    /\ \E p \in PopChoices(next_pages) :
        /\ IsFresh(p, visited)
        /\ ~ ExceedsMax(p.priority, max_distance)
        /\ visited' = visited \cup {p.link}
        /\ next_pages' = (next_pages \ {p})
                            \cup IterSuccessors(p, visited', max_distance)
        /\ expanded' = IF p.link \in DOMAIN link_to_page
                       THEN expanded \cup {[link |-> p.link, distance |-> p.priority]}
                       ELSE expanded
        /\ IF p.priority >= min_distance /\ ~ ExceedsMax(p.priority, max_distance)
           THEN /\ yielded' = Append(yielded, [node |-> p.link, distance |-> p.priority,
                                                path |-> p.path])
                /\ IF IsTarget(p)
                   THEN shortest' = SomePath(p.path) /\ pc' = "done"
                   ELSE UNCHANGED <<shortest, pc>>
           ELSE UNCHANGED <<yielded, shortest, pc>>
    /\ UNCHANGED <<query, link_to_path_info, discarded, sample>>

\* Draining iter_close_titles(first_link, min, max): ClosestPagesIter::next
\* pulled until it gives None, from a frontier `heap` with `seen` visited and
\* `out` yielded so far, as <<last key of path, distance>> pairs.  The value
\* is the set of the results the drain can give, one per way the heap
\* breaks its ties.
RECURSIVE Drain(_, _, _, _, _)
Drain(heap, seen, out, min, max) ==
    IF heap = {} THEN {out}
    ELSE UNION
        {IF ~ IsFresh(p, seen) THEN Drain(heap \ {p}, seen, out, min, max)
         ELSE IF ExceedsMax(p.priority, max) THEN {out}
         ELSE Drain((heap \ {p}) \cup IterSuccessors(p, seen \cup {p.link}, max),
                    seen \cup {p.link},
                    IF p.priority >= min /\ ~ ExceedsMax(p.priority, max)
                    THEN out \cup {<<Last(p.path), p.priority>>}
                    ELSE out,
                    min, max) :
         p \in PopChoices(heap)}

\* lines 313-333, drained
DrainIterCloseTitles(link, min, max) == Drain({FirstPage(link)}, {}, {}, min, max)

(***************************************************************************)
(* get_close_titles, one turn of its while loop per action.                *)
(***************************************************************************)

\* lines 253-255
CloseSkipVisited ==
    /\ mode = "close" /\ pc = "run"
    /\ \E p \in PopChoices(next_pages) :
        /\ ~ IsFresh(p, visited)
        /\ next_pages' = next_pages \ {p}
        /\ discarded' = discarded \cup {p}
    /\ UNCHANGED <<query, visited, link_to_path_info, pc, yielded, expanded,
                   shortest, sample>>

\* lines 257-260: the node has no Page.
CloseNoPageBreak ==
    /\ mode = "close" /\ pc = "run"
    /\ \E p \in PopChoices(next_pages) :
        /\ IsFresh(p, visited)
        /\ p.link \notin DOMAIN link_to_page
        /\ visited' = visited \cup {p.link}
        /\ next_pages' = {}
    /\ UNCHANGED <<query, link_to_path_info, pc, yielded, expanded, discarded,
                   shortest, sample>>
CloseNoPage ==
    /\ mode = "close" /\ pc = "run"
    /\ \E p \in PopChoices(next_pages) :
        /\ IsFresh(p, visited)
        /\ p.link \notin DOMAIN link_to_page
        /\ visited' = visited \cup {p.link}
        /\ next_pages' = next_pages \ {p}
    /\ UNCHANGED <<query, link_to_path_info, pc, yielded, expanded, discarded,
                   shortest, sample>>

\* lines 261-289
CloseExpand ==
    /\ mode = "close" /\ pc = "run"
    /\ \E p \in PopChoices(next_pages) :
        /\ IsFresh(p, visited)
        /\ p.link \in DOMAIN link_to_page
        /\ visited' = visited \cup {p.link}
        /\ expanded' = expanded \cup {[link |-> p.link, distance |-> p.priority]}
        /\ LET links == CloseLinks(p, visited', max_distance.value)
           IN  /\ link_to_path_info' =
                    CloseRecord(link_to_path_info, p, links, min_distance,
                                max_distance.value)
               /\ next_pages' = (next_pages \ {p})
                    \cup {Pushed(p, l, link_to_page[p.link][l]) : l \in links}
    /\ UNCHANGED <<query, pc, yielded, discarded, shortest, sample>>

\* line 292: link_to_path_info.values().cloned().collect()
Candidates(info) == {info[l] : l \in DOMAIN info}

\* lines 295-299, candidates.choose_multiple(&mut rng, count): the results
\* it can give, amount of the candidates or all of them when there are fewer.
ChooseMultipleAll(candidates, amount) == {candidates}
ChooseMultiple(candidates, amount) ==
    {c \in SUBSET candidates : Cardinality(c) = Min(amount, Cardinality(candidates))}

\* lines 292-299
CloseSample ==
    /\ mode = "close" /\ pc = "run"
    /\ next_pages = {}
    /\ sample' \in ChooseMultiple(Candidates(link_to_path_info), count)
    /\ pc' = "done"
    /\ UNCHANGED <<query, visited, next_pages, link_to_path_info, yielded,
                   expanded, discarded, shortest>>

Next ==
    \/ IterExhausted
    \/ IterSkipVisited
    \/ IterStopAtMax
    \/ IterExpand
    \/ CloseSkipVisited
    \/ CloseNoPage
    \/ CloseExpand
    \/ CloseSample

Spec == Init /\ [][Next]_vars

\* A traversal is one sequential loop (`while let Some(p) = ..pop()`), and a
\* caller that drains the iterator pulls again after every Some: a turn
\* that can be taken is taken.
SpecLive == Spec /\ WF_vars(Next)

(***************************************************************************)
(* The archive, the interner and Page::from_entry.                         *)
(***************************************************************************)

\* Calls on one session explored (add_link, get_all, save_bin, load_bin).
MaxOps == 3

\* take(100) of get_all, scaled to the model's three-entry archive.
BatchSize == 2

\* hrefs that the filter of from_entry drops
HrefHttp == <<"h", "t", "t", "p", ":", "/", "/", "x">>
HrefFragment == <<"#", "t">>
HrefParent == <<".", ".", "/", "u">>
HrefAssets == <<"_", "a", "s", "s", "e", "t", "s", "/", "x">>

\* The a[href] values of the three article bodies, in document order.
Bodies ==
    <<[path |-> PathA, hrefs |-> <<PathB, HrefFragment, PathC, PathB>>],
      [path |-> PathB, hrefs |-> <<HrefHttp, PathA, PathA, PathZ>>],
      [path |-> PathC, hrefs |-> <<HrefParent, HrefAssets, PathC>>]>>

\* What reading an entry can come to: "ok"; "entryErr", the entry itself
\* cannot be read (the iterator or get_entry_bypath_str gives Err);
\* "itemErr", get_item or get_data gives Err; "badUtf8", the body is not UTF-8.
EntryKinds == {"ok", "entryErr", "itemErr", "badUtf8"}

Archives ==
    {[i \in DOMAIN Bodies |->
        [path |-> Bodies[i].path, hrefs |-> Bodies[i].hrefs, kind |-> k[i]]] :
     k \in [DOMAIN Bodies -> EntryKinds]}

\* str::starts_with
StartsWith(str, prefix) ==
    /\ Len(str) >= Len(prefix)
    /\ SubSeq(str, 1, Len(prefix)) = prefix

\* the filter of lines 74-79
KeepHref(href) ==
    /\ ~ StartsWith(href, <<"h", "t", "t", "p">>)
    /\ ~ StartsWith(href, <<"#">>)
    /\ ~ StartsWith(href, <<".", ".", "/">>)
    /\ ~ StartsWith(href, <<"_", "a", "s", "s", "e", "t", "s">>)

RECURSIVE Filter(_)
Filter(hrefs) ==
    IF hrefs = <<>> THEN <<>>
    ELSE IF KeepHref(Head(hrefs)) THEN <<Head(hrefs)>> \o Filter(Tail(hrefs))
         ELSE Filter(Tail(hrefs))

\* ThreadedRodeo::get_or_intern, one atomic call: the key the string has, or
\* the next key.
GetOrInternRacy(rodeo, str) == [rodeo |-> Append(rodeo, str), key |-> Len(rodeo)]
GetOrIntern(rodeo, str) ==
    IF str \in Range(rodeo)
    THEN [rodeo |-> rodeo, key |-> FirstIndex(rodeo, str)]
    ELSE [rodeo |-> Append(rodeo, str), key |-> Len(rodeo)]

\* ThreadedRodeo::resolve
Resolve(rodeo, key) == rodeo[key + 1]

\* The accumulator of the fold of lines 80-90, with the interner it writes.
FoldStart(rodeo) == [seen_paths |-> {}, paths |-> <<>>, rodeo |-> rodeo]

\* One turn of the fold's closure for the href p.
FoldStepUnseen(acc, p) ==
    LET r == GetOrIntern(acc.rodeo, p)
    IN  [seen_paths |-> acc.seen_paths \cup {p},
         paths |-> Append(acc.paths, r.key),
         rodeo |-> r.rodeo]
FoldStep(acc, p) ==
    IF p \notin acc.seen_paths
    THEN LET r == GetOrIntern(acc.rodeo, p)
         IN  [seen_paths |-> acc.seen_paths \cup {p},
              paths |-> Append(acc.paths, r.key),
              rodeo |-> r.rodeo]
    ELSE acc

RECURSIVE Fold(_, _)
Fold(acc, hrefs) ==
    IF hrefs = <<>> THEN acc ELSE Fold(FoldStep(acc, Head(hrefs)), Tail(hrefs))

\* lines 63-69: the item, its blob and its UTF-8 body can be had.
BodyReadable(e) == e.kind = "ok"

\* Page::from_entry run to its end by one thread: Option<Page> and the
\* interner it leaves.
FromEntry(e, rodeo) ==
    IF ~ BodyReadable(e)
    THEN [some |-> FALSE, page |-> EmptyMap, rodeo |-> rodeo]
    ELSE LET acc == Fold(FoldStart(rodeo), Filter(e.hrefs))
         IN  [some |-> TRUE, page |-> PageFromLinks(acc.paths), rodeo |-> acc.rodeo]

\* DashMap::insert
Insert(map, key, page) ==
    [k \in DOMAIN map \cup {key} |-> IF k = key THEN page ELSE map[k]]

\* Archive::get_entry_bypath_str: the readable entry of that path, if any.
EntriesByPath(link) ==
    {i \in DOMAIN archive : archive[i].path = link /\ archive[i].kind /= "entryErr"}

\* link_to_page.contains_key(&link_key)
ContainsKeyNever(map, key) == FALSE
ContainsKey(map, key) == key \in DOMAIN map

\* The session of the search specification stays as it is.
SearchAtRest ==
    /\ mode = "none"
    /\ first_link = 0
    /\ target_link = 0
    /\ min_distance = 0
    /\ max_distance = NoMax
    /\ count = 0
    /\ visited = {}
    /\ next_pages = {}
    /\ link_to_path_info = EmptyMap
    /\ pc = "done"
    /\ yielded = <<>>
    /\ expanded = {}
    /\ discarded = {}
    /\ shortest = NonePath
    /\ sample = {}

\* WikiGraph::new on any archive of the family.
InitIngest ==
    /\ archive \in Archives
    /\ link_to_page = EmptyMap
    /\ interner = <<>>
    /\ ipc = "idle"
    /\ cursor = 0
    /\ workers = <<>>
    /\ ops = 0
    /\ graph_file = NoFile
    /\ interner_file = NoFile
    /\ last_op = NoOp
    /\ saved = NoSave
    /\ batch_base = 0
    /\ SearchAtRest
    /\ ZimAtRest

AddInputs == {PathA, PathB, PathC, PathZ}

\* WikiGraph::add_link, lines 127-139.
AddLink ==
    /\ ipc = "idle" /\ ops < MaxOps
    /\ \E link \in AddInputs :
        LET r == GetOrIntern(interner, link)
            link_key == r.key
            found == EntriesByPath(link)
            f == IF found = {}
                 THEN [some |-> FALSE, page |-> EmptyMap, rodeo |-> r.rodeo]
                 ELSE FromEntry(archive[CHOOSE i \in found : TRUE], r.rodeo)
            ret == ~ ContainsKey(link_to_page, link_key) /\ f.some
        IN  /\ interner' = IF ContainsKey(link_to_page, link_key) THEN r.rodeo ELSE f.rodeo
            /\ link_to_page' = IF ret THEN Insert(link_to_page, link_key, f.page)
                               ELSE link_to_page
            /\ last_op' = [op |-> "add_link", link |-> link, ret |-> ret,
                           before |-> link_to_page,
                           again |-> /\ last_op.op = "add_link"
                                     /\ last_op.link = link
                                     /\ last_op.ret]
    /\ ops' = ops + 1
    /\ UNCHANGED <<search, archive, ipc, cursor, workers, graph_file,
                   interner_file, saved, batch_base>>

(***************************************************************************)
(* WikiGraph::get_all, lines 141-167: batches pulled by one thread, each   *)
(* batch's entries handled by concurrent par_bridge closures.  A closure   *)
(* takes one step per call on a shared object (interner, link_to_page).    *)
(***************************************************************************)

AllDone == \A w \in DOMAIN workers : workers[w].stage = "done"

\* entries = entry_iter.by_ref().map(|e| e.unwrap()).take(100): the indices
\* of the entries the next pull reaches.
NextBatch == (cursor + 1) .. Min(cursor + BatchSize, Len(archive))

NewWorker(i) ==
    [entry |-> i, stage |-> "read", todo |-> <<>>, seen_paths |-> {},
     paths |-> <<>>, path_key |-> 0]

\* line 143
GetAllBegin ==
    /\ ipc = "idle" /\ ops < MaxOps
    /\ ipc' = "get_all"
    /\ cursor' = 0
    /\ workers' = <<>>
    /\ ops' = ops + 1
    /\ last_op' = [op |-> "get_all", returned |-> FALSE]
    /\ UNCHANGED <<link_to_page, search, archive, interner, graph_file,
                   interner_file, saved, batch_base>>

\* lines 146-155: a batch is pulled and handed to the closures.
GetAllPullBatch ==
    /\ ipc = "get_all" /\ AllDone
    /\ NextBatch /= {}
    /\ \A i \in NextBatch : archive[i].kind /= "entryErr"
    /\ workers' = [w \in 1 .. Cardinality(NextBatch) |-> NewWorker(cursor + w)]
    /\ cursor' = cursor + Cardinality(NextBatch)
    /\ batch_base' = Len(interner)
    /\ UNCHANGED <<link_to_page, search, archive, interner, ipc, ops,
                   graph_file, interner_file, last_op, saved>>

\* line 147: e.unwrap() on an entry the iterator could not read panics.
GetAllPanic ==
    /\ ipc = "get_all" /\ AllDone
    /\ \E i \in NextBatch : archive[i].kind = "entryErr"
    /\ ipc' = "panicked"
    /\ workers' = <<>>
    /\ UNCHANGED <<link_to_page, search, archive, interner, cursor, ops,
                   graph_file, interner_file, last_op, saved, batch_base>>

\* lines 148-150 and 163-167: the stream is exhausted, get_all returns.
GetAllReturn ==
    /\ ipc = "get_all" /\ AllDone
    /\ NextBatch = {}
    /\ ipc' = "idle"
    /\ workers' = <<>>
    /\ last_op' = [op |-> "get_all", returned |-> TRUE]
    /\ UNCHANGED <<link_to_page, search, archive, interner, cursor, ops,
                   graph_file, interner_file, saved, batch_base>>

\* lines 156-157 and 63-79: the path, then the body and its hrefs; a body
\* that cannot be had ends the closure with nothing inserted.
WorkerRead(w) ==
    /\ ipc = "get_all" /\ w \in DOMAIN workers
    /\ workers[w].stage = "read"
    /\ LET e == archive[workers[w].entry]
       IN  workers' = [workers EXCEPT ![w] =
                IF BodyReadable(e)
                THEN [@ EXCEPT !.stage = "fold", !.todo = Filter(e.hrefs)]
                ELSE [@ EXCEPT !.stage = "done"]]
    /\ UNCHANGED <<link_to_page, search, archive, interner, ipc, cursor, ops,
                   graph_file, interner_file, last_op, saved, batch_base>>

\* lines 80-90: one turn of the fold, on the shared interner.
WorkerFold(w) ==
    /\ ipc = "get_all" /\ w \in DOMAIN workers
    /\ workers[w].stage = "fold" /\ workers[w].todo /= <<>>
    /\ LET acc == FoldStep([seen_paths |-> workers[w].seen_paths,
                            paths |-> workers[w].paths,
                            rodeo |-> interner], Head(workers[w].todo))
       IN  /\ interner' = acc.rodeo
           /\ workers' = [workers EXCEPT ![w] =
                [@ EXCEPT !.todo = Tail(@), !.seen_paths = acc.seen_paths,
                          !.paths = acc.paths]]
    /\ UNCHANGED <<link_to_page, search, archive, ipc, cursor, ops,
                   graph_file, interner_file, last_op, saved, batch_base>>

\* line 158: the Page is built; the article's path is interned.
WorkerPathKey(w) ==
    /\ ipc = "get_all" /\ w \in DOMAIN workers
    /\ workers[w].stage = "fold" /\ workers[w].todo = <<>>
    /\ LET r == GetOrIntern(interner, archive[workers[w].entry].path)
       IN  /\ interner' = r.rodeo
           /\ workers' = [workers EXCEPT ![w] =
                [@ EXCEPT !.stage = "insert", !.path_key = r.key]]
    /\ UNCHANGED <<link_to_page, search, archive, ipc, cursor, ops,
                   graph_file, interner_file, last_op, saved, batch_base>>

\* line 159
WorkerInsert(w) ==
    /\ ipc = "get_all" /\ w \in DOMAIN workers
    /\ workers[w].stage = "insert"
    /\ link_to_page' = Insert(link_to_page, workers[w].path_key,
                              PageFromLinks(workers[w].paths))
    /\ workers' = [workers EXCEPT ![w] = [@ EXCEPT !.stage = "done"]]
    /\ UNCHANGED <<search, archive, interner, ipc, cursor, ops, graph_file,
                   interner_file, last_op, saved, batch_base>>

(***************************************************************************)
(* Persistence: save_bin, lines 169-192, and load_bin, lines 194-221.      *)
(***************************************************************************)

\* lines 171-176: the strings of keys 0 .. len-1, in key order.
InternerStringsFromOne(rodeo) == [i \in 1 .. (Len(rodeo) - 1) |-> Resolve(rodeo, i)]
InternerStrings(rodeo) == [i \in 1 .. Len(rodeo) |-> Resolve(rodeo, i - 1)]

\* lines 179-183: dash_to_hash, then the map encoded entry by entry; the
\* artifact is kept as the set of its (key, links) records, the order of a
\* HashMap's entries being arbitrary and of no effect on decoding.
EncodeGraph(map) ==
    {[key |-> k,
      links |-> {[key |-> l, index |-> map[k][l].index, weight |-> map[k][l].weight] :
                    l \in DOMAIN map[k]}] : k \in DOMAIN map}

\* lines 210-214 and hash_to_dash: the records inserted into a new map.
DecodeGraph(data) ==
    [k \in {r.key : r \in data} |->
        LET r == CHOOSE x \in data : x.key = k
        IN  [l \in {x.key : x \in r.links} |->
                LET x == CHOOSE y \in r.links : y.key = l
                IN  [index |-> x.index, weight |-> x.weight]]]

\* lines 204-207: the strings replayed into a new interner.
RECURSIVE Replay(_, _)
Replay(rodeo, strings) ==
    IF strings = <<>> THEN rodeo
    ELSE Replay(GetOrIntern(rodeo, Head(strings)).rodeo, Tail(strings))

File(data) == [present |-> TRUE, torn |-> FALSE, data |-> data]

\* What a failed std::fs::write can leave: the file as it was, or a file
\* created or truncated and partly written.
AfterFailedWrite(file) == {file, [present |-> TRUE, torn |-> TRUE, data |-> <<>>]}

\* both writes succeed
SaveBinOk ==
    /\ ipc = "idle" /\ ops < MaxOps
    /\ graph_file' = File(EncodeGraph(link_to_page))
    /\ interner_file' = File(InternerStrings(interner))
    /\ saved' = [whole |-> TRUE, link_to_page |-> link_to_page, interner |-> interner]
    /\ last_op' = [op |-> "save_bin", ok |-> TRUE]
    /\ ops' = ops + 1
    /\ UNCHANGED <<link_to_page, search, archive, interner, ipc, cursor,
                   workers, batch_base>>

\* line 184: the write of the graph fails, `?` returns the error.
SaveBinGraphFails ==
    /\ ipc = "idle" /\ ops < MaxOps
    /\ graph_file' \in AfterFailedWrite(graph_file)
    /\ saved' = [saved EXCEPT !.whole = @ /\ graph_file' = graph_file]
    /\ last_op' = [op |-> "save_bin", ok |-> FALSE]
    /\ ops' = ops + 1
    /\ UNCHANGED <<link_to_page, search, archive, interner, ipc, cursor,
                   workers, interner_file, batch_base>>

\* line 189: the graph is written, the write of the interner fails.
SaveBinInternerFails ==
    /\ ipc = "idle" /\ ops < MaxOps
    /\ graph_file' = File(EncodeGraph(link_to_page))
    /\ interner_file' \in AfterFailedWrite(interner_file)
    /\ saved' = [saved EXCEPT !.whole = FALSE]
    /\ last_op' = [op |-> "save_bin", ok |-> FALSE]
    /\ ops' = ops + 1
    /\ UNCHANGED <<link_to_page, search, archive, interner, ipc, cursor,
                   workers, batch_base>>

Loadable == /\ graph_file.present /\ ~ graph_file.torn
            /\ interner_file.present /\ ~ interner_file.torn

\* load_bin returns Ok: a session made of the two artifacts.
LoadBinOk ==
    /\ ipc = "idle" /\ ops < MaxOps
    /\ Loadable
    /\ interner' = Replay(<<>>, interner_file.data)
    /\ link_to_page' = DecodeGraph(graph_file.data)
    /\ last_op' = [op |-> "load_bin", ok |-> TRUE]
    /\ ops' = ops + 1
    /\ UNCHANGED <<search, archive, ipc, cursor, workers, graph_file,
                   interner_file, saved, batch_base>>

\* lines 198 and 210 return Err for a missing file; lines 201 and 213
\* unwrap the decoding of a torn one.  No session comes of it.
LoadBinFails ==
    /\ ipc = "idle" /\ ops < MaxOps
    /\ ~ Loadable
    /\ last_op' = [op |-> "load_bin", ok |-> FALSE]
    /\ ops' = ops + 1
    /\ UNCHANGED <<link_to_page, search, archive, interner, ipc, cursor,
                   workers, graph_file, interner_file, saved, batch_base>>

NextIngest ==
    \/ AddLink
    \/ GetAllBegin
    \/ GetAllPullBatch
    \/ GetAllPanic
    \/ GetAllReturn
    \/ \E w \in 1 .. BatchSize :
        \/ WorkerRead(w)
        \/ WorkerFold(w)
        \/ WorkerPathKey(w)
        \/ WorkerInsert(w)
    \/ SaveBinOk
    \/ SaveBinGraphFails
    \/ SaveBinInternerFails
    \/ LoadBinOk
    \/ LoadBinFails

SpecIngest == InitIngest /\ [][NextIngest]_vars

\* An importing session (fn get_all of main.rs): WikiGraph::new, then
\* add_link and get_all calls, nothing loaded from artifacts.
NextImport ==
    \/ AddLink
    \/ GetAllBegin
    \/ GetAllPullBatch
    \/ GetAllPanic
    \/ GetAllReturn
    \/ \E w \in 1 .. BatchSize :
        \/ WorkerRead(w)
        \/ WorkerFold(w)
        \/ WorkerPathKey(w)
        \/ WorkerInsert(w)

SpecImport == InitIngest /\ [][NextImport]_vars

(***************************************************************************)
(* Page::from_entry over any body: a session whose archive holds one       *)
(* article, its a[href] values being any sequence over a small alphabet    *)
(* (targets, repeated targets, hrefs the filter drops), imported by        *)
(* get_all once or again into the interner the first import left.          *)
(***************************************************************************)

\* Longest a[href] sequence of the bodies explored.
MaxHrefs == 4

HrefAlphabet == {PathA, PathB, PathC, HrefFragment, HrefHttp}

HrefSeqs == UNION {[1 .. k -> HrefAlphabet] : k \in 0 .. MaxHrefs}

ExtractArchives ==
    {<<[path |-> PathA, hrefs |-> h, kind |-> "ok"]>> : h \in HrefSeqs}

InitExtract ==
    /\ archive \in ExtractArchives
    /\ link_to_page = EmptyMap
    /\ interner = <<>>
    /\ ipc = "idle"
    /\ cursor = 0
    /\ workers = <<>>
    /\ ops = 0
    /\ graph_file = NoFile
    /\ interner_file = NoFile
    /\ last_op = NoOp
    /\ saved = NoSave
    /\ batch_base = 0
    /\ SearchAtRest
    /\ ZimAtRest

NextExtract ==
    \/ GetAllBegin
    \/ GetAllPullBatch
    \/ GetAllReturn
    \/ \E w \in 1 .. BatchSize :
        \/ WorkerRead(w)
        \/ WorkerFold(w)
        \/ WorkerPathKey(w)
        \/ WorkerInsert(w)

SpecExtract == InitExtract /\ [][NextExtract]_vars

(***************************************************************************)
(* zim.rs: the from-scratch reader.  The mapped file is the sequence of    *)
(* its bytes; every integer field is decoded from little-endian bytes as   *)
(* byteorder does it.                                                      *)
(***************************************************************************)

\* ReadBytesExt::read_uN::<LittleEndian> on the bytes of one field
RECURSIVE DecLE(_)
DecLE(bytes) == IF bytes = <<>> THEN 0 ELSE Head(bytes) + 256 * DecLE(Tail(bytes))

\* The n bytes a writer of the format stores for the value v.  (The fields
\* of the files explored stay below 2^31, TLC's integers being 32 bits wide.)
RECURSIVE EncLE(_, _)
EncLE(v, n) == IF n = 0 THEN <<>> ELSE <<v % 256>> \o EncLE(v \div 256, n - 1)

\* &buf[from..to]
Slice(buf, from, to) == SubSeq(buf, from + 1, to)

\* The field of n bytes at offset pos of buf.
Field(buf, pos, n) == DecLE(Slice(buf, pos, pos + n))

\* if mmap.len() < 72
HeaderLen == 72

\* the u32 constants of parse_header
MAGIC_LE == 5065050
MAGIC_BE == 1514753280
MAGIC_V6 == 72173914

\* pointers of the two lists are u64
PtrLen == 8

\* blob_count and the blob offsets are u32
U32Len == 4

ZimOk(v) == [ok |-> TRUE, value |-> v, err |-> "none"]
ZimErr(e) == [ok |-> FALSE, value |-> <<>>, err |-> e]

\* the test of line 210
MagicAccepted(magic) == magic = MAGIC_LE \/ magic = MAGIC_BE \/ magic = MAGIC_V6

\* fn parse_header: the fields at the offsets the cursor reaches them.
parse_header(mmap) ==
    IF Len(mmap) < HeaderLen THEN ZimErr("Unsupported")
    ELSE IF ~ MagicAccepted(Field(mmap, 0, 4)) THEN ZimErr("InvalidMagic")
    ELSE ZimOk([major_version |-> Field(mmap, 4, 2),
                minor_version |-> Field(mmap, 6, 2),
                article_count |-> Field(mmap, 24, 4),
                cluster_count |-> Field(mmap, 28, 4),
                url_ptr_pos |-> Field(mmap, 32, 8),
                title_ptr_pos |-> Field(mmap, 40, 8),
                cluster_ptr_pos |-> Field(mmap, 48, 8),
                mime_list_pos |-> Field(mmap, 56, 8),
                main_page |-> Field(mmap, 64, 4),
                layout_page |-> Field(mmap, 68, 4)])

\* fn read_ptr_list and fn read_ptr_list_u64: the u64 values that lie whole
\* between start_pos and min(end_pos, mmap.len()).
read_ptr_list(mmap, start_pos, end_pos) ==
    IF start_pos >= Len(mmap) THEN <<>>
    ELSE LET end == Min(end_pos, Len(mmap))
         IN  IF start_pos >= end THEN <<>>
             ELSE LET slice == Slice(mmap, start_pos, end)
                  IN  [i \in 1 .. (Len(slice) \div PtrLen) |->
                          Field(slice, (i - 1) * PtrLen, PtrLen)]

\* ZimReader::open on a file that can be opened and mapped.
Open(mmap) ==
    LET h == parse_header(mmap)
    IN  IF ~ h.ok THEN [status |-> "err", err |-> h.err]
        ELSE [status |-> "ok", err |-> "none", header |-> h.value,
              title_index |-> read_ptr_list(mmap, h.value.title_ptr_pos,
                                            h.value.cluster_ptr_pos),
              cluster_ptrs |-> read_ptr_list(mmap, h.value.cluster_ptr_pos,
                                             h.value.mime_list_pos)]

\* ZimReader::article_count
article_count(r) == Len(r.title_index)

\* XzDecoder::read_to_end.  xz2 is a library: the model keeps of the xz
\* container that a stream starts with the six magic bytes of the format
\* and carries its payload, and that anything else is an error.
XzMagic == <<253, 55, 122, 88, 90, 0>>

XzDecode(comp) ==
    IF Len(comp) >= Len(XzMagic) /\ SubSeq(comp, 1, Len(XzMagic)) = XzMagic
    THEN ZimOk(SubSeq(comp, Len(XzMagic) + 1, Len(comp)))
    ELSE ZimErr("Decompress")

\* String::from_utf8 on the bytes the model uses: ASCII bytes, and 255,
\* which no UTF-8 sequence contains.
Utf8Ok(bytes) == \A i \in DOMAIN bytes : bytes[i] < 128

\* A slice expression with these bounds does not panic.
InRange(buf, from, to) == from <= to /\ to <= Len(buf)

\* What get_article_html comes to: Ok(String), Err(ZimError), or the panic
\* of a slice index out of range; with the slices it took.
HtmlOk(bytes, reads) == [kind |-> "ok", err |-> "none", bytes |-> bytes, reads |-> reads]
HtmlErr(e, reads) == [kind |-> "err", err |-> e, bytes |-> <<>>, reads |-> reads]
HtmlPanic(reads) == [kind |-> "panic", err |-> "none", bytes |-> <<>>, reads |-> reads]

Read(buf, which, from, to) == [buf |-> which, from |-> from, to |-> to, len |-> Len(buf)]

\* line 148
ClusterRangeBad(cluster_start, cluster_end, len) ==
    cluster_start >= cluster_end \/ cluster_end > len

\* line 181
BlobIndexBad(blob_idx, offsets) == blob_idx >= Len(offsets) - 1

\* line 186
BlobRangeBadOpenEnd(start, end, len) == start >= end
BlobRangeBad(start, end, len) == start >= end \/ end > len

\* lines 166-193: the blob of index blob_idx of a decompressed cluster.
ReadBlob(decompressed, blob_idx, reads) ==
    IF Len(decompressed) < U32Len THEN HtmlErr("EntryParse", reads)
    ELSE LET blob_count == Field(decompressed, 0, U32Len)
         IN  IF U32Len + blob_count * U32Len > Len(decompressed)
             THEN HtmlErr("EntryParse", reads)
             ELSE LET offsets == [i \in 1 .. (blob_count + 1) |->
                                     IF i <= blob_count
                                     THEN Field(decompressed, i * U32Len, U32Len)
                                     ELSE Len(decompressed)]
                  IN  IF BlobIndexBad(blob_idx, offsets)
                      THEN HtmlErr("EntryParse", reads)
                      ELSE LET start == offsets[blob_idx + 1]
                               end == offsets[blob_idx + 2]
                               all == Append(reads, Read(decompressed, "decompressed", start, end))
                           IN  IF BlobRangeBad(start, end, Len(decompressed))
                               THEN HtmlErr("EntryParse", reads)
                               ELSE IF ~ InRange(decompressed, start, end)
                               THEN HtmlPanic(all)
                               ELSE IF ~ Utf8Ok(Slice(decompressed, start, end))
                               THEN HtmlErr("Utf8", all)
                               ELSE HtmlOk(Slice(decompressed, start, end), all)

\* ZimReader::get_article_html, lines 134-194.
get_article_html(r, mmap, entry) ==
    LET cluster_no == entry.cluster
    IN  IF cluster_no >= Len(r.cluster_ptrs) THEN HtmlErr("EntryParse", <<>>)
        ELSE LET cluster_start == r.cluster_ptrs[cluster_no + 1]
                 cluster_end == IF cluster_no + 1 < Len(r.cluster_ptrs)
                                THEN r.cluster_ptrs[cluster_no + 2]
                                ELSE Len(mmap)
                 reads == <<Read(mmap, "mmap", cluster_start, cluster_end)>>
             IN  IF ClusterRangeBad(cluster_start, cluster_end, Len(mmap))
                 THEN HtmlErr("EntryParse", <<>>)
                 ELSE IF ~ InRange(mmap, cluster_start, cluster_end)
                 THEN HtmlPanic(reads)
                 ELSE LET dec == XzDecode(Slice(mmap, cluster_start, cluster_end))
                      IN  IF ~ dec.ok THEN HtmlErr("Decompress", reads)
                          ELSE ReadBlob(dec.value, entry.blob_index, reads)

(***************************************************************************)
(* The files explored: written in the layout the reader expects (header,   *)
(* title pointers, cluster pointers, clusters), then varied in the header, *)
(* in the cluster pointers, in one cluster's content, and cut short.       *)
(***************************************************************************)

\* Most cluster pointers of a file explored.
MaxClusters == 2

\* Largest blob_count of the offset tables explored.
MaxBlobs == 2

RECURSIVE Flatten(_)
Flatten(seqs) == IF seqs = <<>> THEN <<>> ELSE Head(seqs) \o Flatten(Tail(seqs))

RECURSIVE SumLen(_)
SumLen(seqs) == IF seqs = <<>> THEN 0 ELSE Len(Head(seqs)) + SumLen(Tail(seqs))

Zeros(n) == [i \in 1 .. n |-> 0]

\* The first four bytes: "ZIM\x04", "ZIM\0", "\0MIZ" and "GIF8".
MagicBytes == {<<90, 73, 77, 4>>, <<90, 73, 77, 0>>, <<0, 77, 73, 90>>, <<71, 73, 70, 56>>}

MajorChoices == {5, 6, 7}

\* Where cluster i starts in a file of these title pointers and clusters.
ClusterStart(titles, clusters, i) ==
    HeaderLen + PtrLen * Len(titles) + PtrLen * Len(clusters)
        + SumLen(SubSeq(clusters, 1, i - 1))

\* The bytes of a file: the header of parse_header's offsets, the two
\* pointer lists, the clusters.
FileOf(magic, major, titles, ptrs, clusters) ==
    magic \o EncLE(major, 2) \o EncLE(0, 2) \o Zeros(16)
        \o EncLE(Len(titles), 4) \o EncLE(Len(clusters), 4)
        \o EncLE(HeaderLen, 8)
        \o EncLE(HeaderLen, 8)
        \o EncLE(HeaderLen + PtrLen * Len(titles), 8)
        \o EncLE(HeaderLen + PtrLen * Len(titles) + PtrLen * Len(ptrs), 8)
        \o EncLE(0, 4) \o EncLE(0, 4)
        \o Flatten([i \in DOMAIN titles |-> EncLE(titles[i], PtrLen)])
        \o Flatten([i \in DOMAIN ptrs |-> EncLE(ptrs[i], PtrLen)])
        \o Flatten(clusters)

Cut(file, n) == SubSeq(file, 1, Min(n, Len(file)))

\* The two bytes of blob data after an offset table: "A" and a byte that is
\* not UTF-8.
BlobData == <<65, 255>>

\* A decompressed cluster as get_article_html reads it: blob_count, that
\* many offsets, the data.
ClusterBody(offs) ==
    EncLE(Len(offs), U32Len)
        \o Flatten([i \in DOMAIN offs |-> EncLE(offs[i], U32Len)])
        \o BlobData

\* Offsets into the table, at the data, at the end of the buffer, past it.
OffsetChoices(blobs) ==
    LET data == U32Len + U32Len * blobs
    IN  {0, data, data + 1, data + Len(BlobData), data + Len(BlobData) + 1}

ClusterBodies ==
    UNION {{ClusterBody(offs) : offs \in [1 .. blobs -> OffsetChoices(blobs)]} :
           blobs \in 0 .. MaxBlobs}

\* ... whole or cut short: inside blob_count, inside the table, inside the data
Buffers ==
    UNION {{Cut(b, n) : n \in {0, U32Len - 1, Len(b) - Len(BlobData) - 1,
                               Len(b) - 1, Len(b)}} : b \in ClusterBodies}

\* A cluster of the file for a buffer: the xz stream alone, which is what
\* get_article_html decodes, or a flags byte (4: XZ, 1: stored, 5: Zstandard)
\* before the content, as the archive format has it.
ClustersOf(b) ==
    {XzMagic \o b, <<4>> \o XzMagic \o b, <<1>> \o b, <<5>> \o b}

GoodCluster == XzMagic \o ClusterBody(<<U32Len + U32Len, U32Len + U32Len + 1>>)

GoodTitles == <<0>>

GoodFile(clusters) ==
    FileOf(<<90, 73, 77, 4>>, 6, GoodTitles,
           [i \in DOMAIN clusters |-> ClusterStart(GoodTitles, clusters, i)], clusters)

\* files that differ in the magic, the version and the length
HeaderFiles ==
    {Cut(FileOf(magic, major, GoodTitles, <<ClusterStart(GoodTitles, <<GoodCluster>>, 1)>>,
                <<GoodCluster>>), n) :
        magic \in MagicBytes, major \in MajorChoices,
        n \in {3, 8, HeaderLen - 1, HeaderLen, HeaderLen + PtrLen + PtrLen + Len(GoodCluster)}}

\* files of one cluster that differ in its content
BodyFiles == {GoodFile(<<c>>) : c \in UNION {ClustersOf(b) : b \in Buffers}}

\* files of MaxClusters clusters that differ in the cluster pointers (right,
\* zero, past the end of the file) and in where the file ends
PtrFiles ==
    LET clusters == [i \in 1 .. MaxClusters |-> GoodCluster]
        full == Len(GoodFile(clusters))
    IN  {Cut(FileOf(<<90, 73, 77, 4>>, 6, GoodTitles, ptrs, clusters), n) :
            ptrs \in [1 .. MaxClusters ->
                        {0, full + 5} \cup
                        {ClusterStart(GoodTitles, clusters, i) : i \in 1 .. MaxClusters}],
            n \in {HeaderLen + PtrLen + PtrLen + 4, full - 3, full}}

\* The file with n in the article_count field of its header (offset 24).
WithArticleCount(file, n) ==
    SubSeq(file, 1, 24) \o EncLE(n, U32Len) \o SubSeq(file, 24 + U32Len + 1, Len(file))

\* What the header says of a file that has PtrLen bytes between
\* title_ptr_pos and cluster_ptr_pos: no entry, one, or two (the two 4-byte
\* title pointers of the archive format).
ArticleCountChoices == {0, 1, 2}

\* whole files that differ in the header's article_count
CountFiles ==
    {WithArticleCount(GoodFile(<<GoodCluster>>), n) : n \in ArticleCountChoices}

ZimFiles == HeaderFiles \cup BodyFiles \cup PtrFiles \cup CountFiles

\* The DirEntry values handed to get_article_html (its cluster and
\* blob_index fields; the function reads no other).
Entries == [cluster : 0 .. MaxClusters, blob_index : 0 .. MaxBlobs]

InitZim ==
    /\ zim_file \in ZimFiles
    /\ reader = NoReader
    /\ html = NoHtml
    /\ link_to_page = EmptyMap
    /\ IngestAtRest
    /\ SearchAtRest

\* ZimReader::open
ZimOpen ==
    /\ reader.status = "unopened"
    /\ reader' = Open(zim_file)
    /\ UNCHANGED <<link_to_page, mode, first_link, target_link, min_distance,
                   max_distance, count, visited, next_pages, link_to_path_info, pc,
                   yielded, expanded, discarded, shortest, sample, ingest,
                   zim_file, html>>

\* ZimReader::get_article_html on an open reader
ZimGetArticleHtml ==
    /\ reader.status = "ok"
    /\ \E entry \in Entries :
        html' = [called |-> TRUE, entry |-> entry,
                 result |-> get_article_html(reader, zim_file, entry)]
    /\ UNCHANGED <<link_to_page, mode, first_link, target_link, min_distance,
                   max_distance, count, visited, next_pages, link_to_path_info, pc,
                   yielded, expanded, discarded, shortest, sample, ingest,
                   zim_file, reader>>

NextZim ==
    \/ ZimOpen
    \/ ZimGetArticleHtml

SpecZim == InitZim /\ [][NextZim]_vars

(***************************************************************************)
(* What the claims are measured against: the walks of the store.           *)
(***************************************************************************)

\* <<node, cost>> for every walk of at most k hops from s; one hop over the
\* link l of Page u costs weight(l in u) + 1.0.
RECURSIVE WalkCosts(_, _)
WalkCosts(s, k) ==
    IF k = 0 THEN {<<s, 0>>}
    ELSE LET prev == WalkCosts(s, k - 1)
         IN  prev \cup UNION
                {{<<v, w[2] + link_to_page[w[1]][v].weight + Scale>> :
                    v \in DOMAIN link_to_page[w[1]]} :
                 w \in {x \in prev : x[1] \in DOMAIN link_to_page}}

\* A shortest walk repeats no node: Cardinality(Keys) - 1 hops are enough.
CostsTo(t) == {w[2] : w \in {x \in WalkCosts(first_link, Cardinality(Keys) - 1) : x[1] = t}}

Reachable(t) == CostsTo(t) /= {}

MinDist(t) == CHOOSE c \in CostsTo(t) : \A d \in CostsTo(t) : c <= d

\* path is a chain of links of the store.
IsChain(path) ==
    /\ Len(path) >= 1
    /\ \A k \in 1 .. (Len(path) - 1) :
        /\ path[k] \in DOMAIN link_to_page
        /\ path[k + 1] \in DOMAIN link_to_page[path[k]]

RECURSIVE ChainCost(_)
ChainCost(path) ==
    IF Len(path) <= 1 THEN 0
    ELSE ChainCost(SubSeq(path, 1, Len(path) - 1))
            + link_to_page[path[Len(path) - 1]][Last(path)].weight + Scale

\* A PathInfo for node n: a chain from the start to n with its summed cost.
SelfConsistent(info, n) ==
    /\ IsChain(info.path)
    /\ info.path[1] = first_link
    /\ Last(info.path) = n
    /\ info.distance = ChainCost(info.path)

(***************************************************************************)
(* C1..C6: the path search.                                                *)
(***************************************************************************)

\* C1: find_shortest_path returns Some(path) of least summed cost among the
\* start-to-target paths of the store, and None exactly when the target is
\* not reachable from the start.
C1_ShortestPathOptimal ==
    (mode = "shortest" /\ pc = "done") =>
        /\ shortest.found <=> Reachable(target_link)
        /\ shortest.found =>
            /\ IsChain(shortest.path)
            /\ shortest.path[1] = first_link
            /\ Last(shortest.path) = target_link
            /\ ChainCost(shortest.path) = MinDist(target_link)

\* A two-hop shortest path was returned.
C1_Witness ==
    /\ mode = "shortest" /\ pc = "done"
    /\ shortest.found /\ Len(shortest.path) = 3

\* C2: the distances one traversal yields never decrease.
C2_NonDecreasingYields ==
    \A i, j \in DOMAIN yielded :
        i < j => yielded[i].distance <= yielded[j].distance

\* Three pulls of a bounded traversal yielded three growing distances.
C2_Witness ==
    /\ mode = "iter" /\ max_distance.some
    /\ Len(yielded) = 3
    /\ yielded[1].distance < yielded[2].distance
    /\ yielded[2].distance < yielded[3].distance

\* C3: a node is finalized the first time it is popped: it is in visited,
\* it is yielded at most once, with the least distance from the start, and
\* a later frontier entry for it is discarded.
C3_FinalizedOnceAtMinimum ==
    mode \in IterModes =>
        /\ \A i, j \in DOMAIN yielded :
            i /= j => yielded[i].node /= yielded[j].node
        /\ \A i \in DOMAIN yielded :
            /\ yielded[i].node \in visited
            /\ Reachable(yielded[i].node)
            /\ yielded[i].distance = MinDist(yielded[i].node)
        /\ \A p \in discarded : p.link \in visited

\* A node was yielded and a later, longer frontier entry for it discarded.
C3_Witness ==
    /\ mode = "iter"
    /\ \E p \in discarded : \E i \in DOMAIN yielded :
        yielded[i].node = p.link /\ yielded[i].distance < p.priority

\* C4: get_close_titles with max_distance = D returns no PathInfo with
\* distance > D and expands (reads the Page of, and walks the links of) no
\* node whose distance exceeds D, for every D, negative ones included.
C4_BoundedTraversal ==
    mode = "close" =>
        /\ \A r \in sample : r.distance <= max_distance.value
        /\ \A e \in expanded : e.distance <= max_distance.value

\* C5: the candidates of get_close_titles are exactly the finalized nodes
\* whose least distance d has min_distance <= d <= max_distance, each
\* recorded with that d (the start included when min_distance <= 0).
C5_CandidatesExact ==
    (mode = "close" /\ pc = "done") =>
        /\ DOMAIN link_to_path_info =
            {n \in visited : /\ MinDist(n) >= min_distance
                             /\ MinDist(n) <= max_distance.value}
        /\ \A n \in DOMAIN link_to_path_info :
            link_to_path_info[n].distance = MinDist(n)

\* C6: every PathInfo of either traversal starts at the start key, ends at
\* its node, follows links of the store, and carries their summed cost.
C6_PathInfoSelfConsistent ==
    /\ \A i \in DOMAIN yielded :
        SelfConsistent([distance |-> yielded[i].distance, path |-> yielded[i].path],
                       yielded[i].node)
    /\ \A n \in DOMAIN link_to_path_info :
        SelfConsistent(link_to_path_info[n], n)
    /\ \A r \in sample : SelfConsistent(r, Last(r.path))

\* get_close_titles returned a PathInfo two hops away from the start.
C6_Witness ==
    /\ mode = "close" /\ pc = "done"
    /\ \E r \in sample : Len(r.path) = 3

(***************************************************************************)
(* C7..C10: the interner, persistence, add_link and bulk import.           *)
(***************************************************************************)

\* The elements of s in the order of their first occurrence.
RECURSIVE Dedup(_)
Dedup(s) ==
    IF s = <<>> THEN <<>>
    ELSE LET front == Dedup(SubSeq(s, 1, Len(s) - 1))
         IN  IF Last(s) \in Range(front) THEN front ELSE Append(front, Last(s))

\* The hrefs of its entry that closure w has been through so far.
Processed(w) ==
    LET kept == Filter(archive[workers[w].entry].hrefs)
    IN  SubSeq(kept, 1, Len(kept) - Len(workers[w].todo))

\* The strings closure w holds a key for, with the key.
Held(w) ==
    {<<Dedup(Processed(w))[i], workers[w].paths[i]>> : i \in DOMAIN workers[w].paths}
        \cup (IF workers[w].stage = "insert"
              THEN {<<archive[workers[w].entry].path, workers[w].path_key>>}
              ELSE {})

\* C7: however the closures of a batch interleave their get_or_intern
\* calls, a string has one key (whoever asked for it holds that key),
\* distinct strings have distinct keys, and during the import a key keeps
\* the string it was given.
C7_OneKeyPerString ==
    /\ [](/\ \A i, j \in DOMAIN interner : i /= j => interner[i] /= interner[j]
          /\ \A w \in DOMAIN workers : \A h \in Held(w) :
                /\ h[2] < Len(interner)
                /\ Resolve(interner, h[2]) = h[1]
          /\ \A w, v \in DOMAIN workers : \A h \in Held(w) : \A g \in Held(v) :
                h[1] = g[1] <=> h[2] = g[2])
    /\ [][ipc = "get_all" =>
            /\ Len(interner') >= Len(interner)
            /\ \A k \in DOMAIN interner : interner'[k] = interner[k]]_vars

\* Two closures of one batch hold the same key for a string that was not
\* interned when the batch was pulled.
C7_Witness ==
    /\ ipc = "get_all"
    /\ \E w, v \in DOMAIN workers :
        /\ w /= v
        /\ \E h \in Held(w) : h \in Held(v) /\ h[2] >= batch_base

\* C8: load_bin after a save_bin that wrote both artifacts gives back the
\* interner, key for key, and the store, Page for Page.
C8_SaveLoadRoundTrip ==
    (last_op.op = "load_bin" /\ last_op.ok /\ saved.whole) =>
        /\ Len(interner) = Len(saved.interner)
        /\ \A k \in 0 .. (Len(saved.interner) - 1) :
            Resolve(interner, k) = Resolve(saved.interner, k)
        /\ DOMAIN link_to_page = DOMAIN saved.link_to_page
        /\ \A k \in DOMAIN saved.link_to_page :
            /\ DOMAIN link_to_page[k] = DOMAIN saved.link_to_page[k]
            /\ \A l \in DOMAIN saved.link_to_page[k] :
                /\ link_to_page[k][l].index = saved.link_to_page[k][l].index
                /\ link_to_page[k][l].weight = saved.link_to_page[k][l].weight

\* A store with a two-link Page went through save_bin and load_bin.
C8_Witness ==
    /\ last_op.op = "load_bin" /\ last_op.ok /\ saved.whole
    /\ Len(interner) >= 3
    /\ \E k \in DOMAIN link_to_page : Cardinality(DOMAIN link_to_page[k]) = 2

\* C9: add_link returns true exactly when the key had no Page and a Page
\* could be extracted, and then only adds that Page; it returns false and
\* leaves the store as it was otherwise; called again after true, it
\* returns false.
C9_AddLinkIdempotent ==
    last_op.op = "add_link" =>
        LET key == FirstIndex(interner, last_op.link)
            had == key \in DOMAIN last_op.before
            ok == {i \in DOMAIN archive :
                      archive[i].path = last_op.link /\ archive[i].kind = "ok"}
        IN  /\ last_op.link \in Range(interner)
            /\ last_op.ret <=> (~ had /\ ok /= {})
            /\ last_op.ret =>
                /\ DOMAIN link_to_page = DOMAIN last_op.before \cup {key}
                /\ \A k \in DOMAIN last_op.before : link_to_page[k] = last_op.before[k]
                /\ \A i \in ok :
                    {Resolve(interner, l) : l \in DOMAIN link_to_page[key]}
                        = Range(Filter(archive[i].hrefs))
            /\ ~ last_op.ret => link_to_page = last_op.before
            /\ last_op.again => ~ last_op.ret

\* add_link was called again for a path it had just added.
C9_Witness ==
    /\ last_op.op = "add_link"
    /\ last_op.again
    /\ FirstIndex(interner, last_op.link) \in DOMAIN link_to_page

\* C10: an article that fails during get_all (unreadable entry, unreadable
\* item or blob, body not UTF-8) is only left out: the import is never
\* aborted, and when get_all returns every article that can be extracted
\* has its Page in the store.
C10_FailuresIsolated ==
    /\ ipc /= "panicked"
    /\ (last_op.op = "get_all" /\ last_op.returned) =>
        \A i \in DOMAIN archive :
            archive[i].kind = "ok" =>
                /\ archive[i].path \in Range(interner)
                /\ FirstIndex(interner, archive[i].path) \in DOMAIN link_to_page

(***************************************************************************)
(* C11, C12: the Pages from_entry builds.                                  *)
(***************************************************************************)

\* The entry a Page of the store was built from: the one whose path the
\* Page's key resolves to.
EntryOf(k) == CHOOSE i \in DOMAIN archive : archive[i].path = Resolve(interner, k)

\* C11: in every Page of n >= 1 links the link of position index i has
\* weight (i + 1) / n, every weight lies in (0, 1], the indices are exactly
\* 0 .. n-1 without gap or repeat, and a lower index has a lower weight.
C11_WeightsLinear ==
    \A k \in DOMAIN link_to_page :
        LET page == link_to_page[k]
            n == Cardinality(DOMAIN page)
        IN  /\ {page[l].index : l \in DOMAIN page} = 0 .. (n - 1)
            /\ \A l \in DOMAIN page :
                /\ page[l].weight * n = (page[l].index + 1) * Scale
                /\ page[l].weight > 0
                /\ page[l].weight <= Scale
            /\ \A l, m \in DOMAIN page :
                page[l].index < page[m].index => page[l].weight < page[m].weight

\* A Page of three links was built from a body of four hrefs.
C11_Witness ==
    \E k \in DOMAIN link_to_page :
        /\ Cardinality(DOMAIN link_to_page[k]) = 3
        /\ Len(archive[EntryOf(k)].hrefs) = 4

\* C12: a Page has exactly one key per distinct surviving href, the index
\* of a target is the rank of its first occurrence among the distinct
\* surviving hrefs, and the total its weights are divided by is the number
\* of distinct surviving hrefs, whatever repeats.
C12_DedupFirstOccurrence ==
    \A k \in DOMAIN link_to_page :
        LET page == link_to_page[k]
            kept == Filter(archive[EntryOf(k)].hrefs)
            distinct == Dedup(kept)
        IN  /\ \A l \in DOMAIN page : l < Len(interner)
            /\ {Resolve(interner, l) : l \in DOMAIN page} = Range(kept)
            /\ Cardinality(DOMAIN page) = Cardinality(Range(kept))
            /\ \A l \in DOMAIN page :
                /\ page[l].index = FirstIndex(distinct, Resolve(interner, l))
                /\ page[l].weight * Len(distinct) = (page[l].index + 1) * Scale

\* A Page was built from a body in which a surviving href comes back after
\* another surviving href.
C12_Witness ==
    \E k \in DOMAIN link_to_page :
        LET kept == Filter(archive[EntryOf(k)].hrefs)
        IN  \E i, j, m \in DOMAIN kept :
                /\ i < j /\ j < m
                /\ kept[i] = kept[m]
                /\ kept[i] /= kept[j]

(***************************************************************************)
(* C13..C16: the archive reader.                                           *)
(***************************************************************************)

\* The first four bytes of the file are a magic constant parse_header takes.
StartsWithMagic ==
    /\ Len(zim_file) >= 4
    /\ MagicAccepted(DecLE(SubSeq(zim_file, 1, 4)))

\* C13: open on a file whose first four bytes are not the magic constant
\* fails with InvalidMagic, whatever the length of the file, files shorter
\* than a header included.
C13_BadMagicInvalidMagic ==
    (reader.status /= "unopened" /\ ~ StartsWithMagic) =>
        /\ reader.status = "err"
        /\ reader.err = "InvalidMagic"

\* The major versions of the archive format a reader supports.
SupportedMajor == {5, 6}

\* C14: open on a file with the magic constant and a major version outside
\* the supported range fails with an unsupported-version error, and no
\* Reader is ever returned for such a version.
C14_VersionChecked ==
    /\ reader.status = "ok" => reader.header.major_version \in SupportedMajor
    /\ (/\ reader.status /= "unopened"
        /\ StartsWithMagic
        /\ Len(zim_file) >= HeaderLen
        /\ DecLE(SubSeq(zim_file, 5, 6)) \notin SupportedMajor) =>
            /\ reader.status = "err"
            /\ reader.err = "UnsupportedVersion"

\* The decompressed cluster the last get_article_html call worked on.
Decoded ==
    XzDecode(Slice(zim_file, html.result.reads[1].from, html.result.reads[1].to)).value

\* C15: get_article_html takes no slice outside the mapped file or the
\* decompressed cluster; a cluster number not below the number of cluster
\* pointers, a blob index not below the cluster's blob count, and a blob
\* range that does not fit the decompressed buffer each give EntryParse; a
\* blob is returned only from a range inside the buffer.
C15_BlobBounds ==
    html.called =>
        LET res == html.result
        IN  /\ res.kind /= "panic"
            /\ \A i \in DOMAIN res.reads :
                /\ 0 <= res.reads[i].from
                /\ res.reads[i].from <= res.reads[i].to
                /\ res.reads[i].to <= res.reads[i].len
            /\ html.entry.cluster >= Len(reader.cluster_ptrs) =>
                res.kind = "err" /\ res.err = "EntryParse"
            /\ (res.reads /= <<>> /\ res.err /= "Decompress") =>
                /\ (\/ Len(Decoded) < U32Len
                    \/ html.entry.blob_index >= DecLE(SubSeq(Decoded, 1, U32Len))) =>
                        res.kind = "err" /\ res.err = "EntryParse"
                /\ Len(res.reads) = 1 => res.kind = "err" /\ res.err = "EntryParse"
                /\ Len(res.reads) = 2 =>
                    /\ res.reads[2].len = Len(Decoded)
                    /\ res.reads[2].from < res.reads[2].to
                    /\ res.kind = "ok" =>
                        res.bytes = SubSeq(Decoded, res.reads[2].from + 1, res.reads[2].to)

\* A blob index below the blob count whose offsets end past the
\* decompressed buffer was refused.
C15_Witness ==
    /\ html.called
    /\ html.result.reads /= <<>>
    /\ html.result.err = "EntryParse"
    /\ Len(Decoded) >= U32Len
    /\ LET blob_count == DecLE(SubSeq(Decoded, 1, U32Len))
           at == U32Len * (html.entry.blob_index + 1)
       IN  /\ html.entry.blob_index + 1 < blob_count
           /\ Len(Decoded) >= U32Len + U32Len * blob_count
           /\ DecLE(SubSeq(Decoded, at + 1, at + U32Len))
                < DecLE(SubSeq(Decoded, at + U32Len + 1, at + U32Len + U32Len))
           /\ DecLE(SubSeq(Decoded, at + U32Len + 1, at + U32Len + U32Len)) > Len(Decoded)

\* C16: the codec of a cluster is the low nibble of its first byte: 0 and 1
\* give the stored bytes undecoded, the XZ code (4) is decompressed, every
\* other code fails with UnsupportedCompression.
C16_CodecFromFlags ==
    (html.called /\ html.result.reads /= <<>>) =>
        LET code == zim_file[html.result.reads[1].from + 1] % 16
            res == html.result
        IN  /\ code \in {0, 1} => res.err \notin {"Decompress", "UnsupportedCompression"}
            /\ code = 4 => res.err /= "UnsupportedCompression"
            /\ code \notin {0, 1, 4} =>
                res.kind = "err" /\ res.err = "UnsupportedCompression"

(***************************************************************************)
(* C17..C20: sampling, persistence, bulk import.                           *)
(***************************************************************************)

\* C17: get_close_titles returns min(count, number of candidates) PathInfo
\* values, each one a candidate, no two of them for the same node.
C17_SampleWithoutReplacement ==
    (mode = "close" /\ pc = "done") =>
        /\ Cardinality(sample) = Min(count, Cardinality(DOMAIN link_to_path_info))
        /\ \A r \in sample : \E l \in DOMAIN link_to_path_info :
                link_to_path_info[l] = r
        /\ \A r, q \in sample : r /= q => Last(r.path) /= Last(q.path)

\* One of two candidates was returned.
C17_Witness ==
    /\ mode = "close" /\ pc = "done"
    /\ count = 1
    /\ Cardinality(DOMAIN link_to_path_info) = 2
    /\ Cardinality(sample) = 1

\* C18: after every save_bin call, Ok or Err, the two artifacts are of one
\* session state: both as the last save_bin that returned Ok wrote them, or
\* both absent; and a load_bin that returns Ok gives a store and an interner
\* that were saved together.
C18_ArtifactsAllOrNothing ==
    /\ last_op.op = "save_bin" =>
        \/ graph_file = NoFile /\ interner_file = NoFile
        \/ /\ graph_file = File(EncodeGraph(saved.link_to_page))
           /\ interner_file = File(InternerStrings(saved.interner))
    /\ (last_op.op = "load_bin" /\ last_op.ok) =>
        /\ link_to_page = saved.link_to_page
        /\ interner = saved.interner

\* The entries get_all pulled in the batches before the current one.
EarlierBatches == 1 .. (cursor - Len(workers))

\* C19: get_all pulls the entry stream in order in batches of at most
\* BatchSize, a full batch unless the stream ends; the closures of a batch
\* hold its entries, one each; a batch is pulled only when every entry of
\* the batches before it has been dealt with; and get_all is over only when
\* the whole stream has been pulled, no entry left out.
C19_BatchesCoverStream ==
    /\ Len(workers) <= BatchSize
    /\ ipc = "get_all" =>
        /\ \A w \in DOMAIN workers : workers[w].entry = cursor - Len(workers) + w
        /\ cursor % BatchSize = 0 \/ cursor = Len(archive)
        /\ workers /= <<>> => (Len(workers) = BatchSize \/ cursor = Len(archive))
        /\ \A i \in EarlierBatches :
            BodyReadable(archive[i]) =>
                /\ archive[i].path \in Range(interner)
                /\ FirstIndex(interner, archive[i].path) \in DOMAIN link_to_page
    /\ (last_op.op = "get_all" /\ ipc /= "get_all") => cursor = Len(archive)

\* A Page with its keys resolved: (target string, index, weight) triples.
ResolvedPage(page) ==
    {<<Resolve(interner, l), page[l].index, page[l].weight>> : l \in DOMAIN page}

\* The triples of an entry's body, from its hrefs alone.
ExpectedPage(e) ==
    LET distinct == Dedup(Filter(e.hrefs))
    IN  {<<distinct[i], i - 1, (i * Scale) \div Len(distinct)>> : i \in DOMAIN distinct}

\* C20: in a session that imports, whatever the interleaving of a batch's
\* closures, no two of them insert under one key, every Page of the store
\* is, with its keys resolved, the Page of its article's body, and when
\* get_all is over the articles of the store are those of the readable
\* entries pulled: only the numbers of the keys depend on the interleaving.
C20_InterleavingIndependent ==
    /\ \A w, v \in DOMAIN workers :
        (w /= v /\ workers[w].stage = "insert" /\ workers[v].stage = "insert") =>
            workers[w].path_key /= workers[v].path_key
    /\ \A k \in DOMAIN link_to_page :
        /\ k < Len(interner)
        /\ \E i \in DOMAIN archive :
            /\ archive[i].path = Resolve(interner, k)
            /\ BodyReadable(archive[i])
            /\ ResolvedPage(link_to_page[k]) = ExpectedPage(archive[i])
    /\ (last_op.op = "get_all" /\ ipc /= "get_all") =>
        \A i \in 1 .. cursor :
            BodyReadable(archive[i]) =>
                \E k \in DOMAIN link_to_page : Resolve(interner, k) = archive[i].path

\* get_all alone imported the three articles, and a closure of a later
\* entry interned a string before the closure of the first entry did.
C20_Witness ==
    /\ last_op.op = "get_all" /\ last_op.returned /\ ops = 1
    /\ Cardinality(DOMAIN link_to_page) = 3
    /\ interner[1] = PathA

(***************************************************************************)
(* C21..C25: the traversals as loops.                                      *)
(***************************************************************************)

\* The nodes some walk from the start reaches, the start included.
ReachableNodes == {n \in Keys : Reachable(n)}

\* Every frontier entry but the first is pushed for one link of one Page,
\* and a Page is read once.
LinkCount ==
    LET RECURSIVE Sum(_)
        Sum(S) == IF S = {} THEN 0
                  ELSE LET n == CHOOSE x \in S : TRUE
                       IN  Cardinality(DOMAIN link_to_page[n]) + Sum(S \ {n})
    IN  Sum(DOMAIN link_to_page)

\* Frontier entries popped so far: one per node put in visited, one per
\* entry skipped.
Pops == Cardinality(visited) + Cardinality(discarded)

\* C21: on every store, cycles and self-links included, every traversal
\* comes to its end (next gives None, find_shortest_path and
\* get_close_titles return) after at most one pop per frontier entry, and
\* it yields at most one result per node reachable from the start.
C21_TraversalTerminates ==
    /\ <>(pc = "done")
    /\ [](/\ Pops <= 1 + LinkCount
          /\ Len(yielded) <= Cardinality(ReachableNodes)
          /\ \A i \in DOMAIN yielded : yielded[i].node \in ReachableNodes
          /\ \A i, j \in DOMAIN yielded :
                i /= j => yielded[i].node /= yielded[j].node)

\* An unbounded drain over a store where the start links to itself and lies
\* on a cycle ended after yielding every node.
C21_Witness ==
    /\ mode = "iter" /\ ~ max_distance.some /\ pc = "done"
    /\ first_link \in DOMAIN link_to_page
    /\ first_link \in DOMAIN link_to_page[first_link]
    /\ \E n \in DOMAIN link_to_page : n /= first_link
            /\ n \in DOMAIN link_to_page[first_link]
            /\ first_link \in DOMAIN link_to_page[n]
    /\ Len(yielded) = Cardinality(Keys)
    /\ discarded /= {}

\* The traversal has yielded a PathInfo whose last key is the target.
TargetYielded == \E i \in DOMAIN yielded : Last(yielded[i].path) = target_link

\* C22: once a pull of find_shortest_path has yielded a PathInfo whose last
\* key is the target, no frontier entry is popped and no node is finalized
\* or expanded any more.
C22_StopsAtTarget ==
    [][(mode = "shortest" /\ TargetYielded) =>
            UNCHANGED <<visited, next_pages, expanded, discarded, yielded>>]_vars

\* find_shortest_path returned while the frontier still held entries and a
\* reachable node was not finalized.
C22_Witness ==
    /\ mode = "shortest" /\ TargetYielded /\ shortest.found
    /\ next_pages /= {}
    /\ ReachableNodes \ visited /= {}

\* A node that contributes no successors: no Page, or a Page without links.
IsLeaf(n) == n \notin DOMAIN link_to_page \/ DOMAIN link_to_page[n] = {}

\* d <= max_distance, or the traversal has no max_distance.
WithinMax(d) == ~ ExceedsMax(d, max_distance)

YieldedNodes == {yielded[i].node : i \in DOMAIN yielded}

\* C23: a node with no Page or with an empty Page is finalized like any
\* other (yielded by the iterator when its distance is in range, found when
\* it is find_shortest_path's target) and pushes nothing, and the traversal
\* goes on: when it ends every reachable node within max_distance is
\* finalized, unless find_shortest_path returned at its target before.
C23_LeafNodesFinalized ==
    /\ \A p \in next_pages \cup discarded :
          \A k \in 1 .. (Len(p.path) - 1) : ~ IsLeaf(p.path[k])
    /\ pc = "done" =>
          /\ (mode = "shortest" /\ Reachable(target_link)) =>
                shortest.found /\ Last(shortest.path) = target_link
          /\ ~ (mode = "shortest" /\ shortest.found) =>
                \A n \in ReachableNodes :
                    WithinMax(MinDist(n)) =>
                        /\ n \in visited
                        /\ (mode \in IterModes /\ MinDist(n) >= min_distance)
                                => n \in YieldedNodes

\* A drain yielded a node with no Page and, after it, a node with an empty
\* Page.
C23_Witness ==
    /\ mode = "iter" /\ pc = "done"
    /\ \E i, j \in DOMAIN yielded :
        /\ i < j
        /\ yielded[i].node \notin DOMAIN link_to_page
        /\ yielded[j].node \in DOMAIN link_to_page
        /\ DOMAIN link_to_page[yielded[j].node] = {}

\* The candidates of get_close_titles as <<node, distance>> pairs.
CandidatePairs ==
    {<<n, link_to_path_info[n].distance>> : n \in DOMAIN link_to_path_info}

\* C24: the <<node, distance>> candidates get_close_titles has built when
\* its loop ends are the <<last key of path, distance>> pairs a drain of
\* iter_close_titles(first_link, min_distance, Some(max_distance)) yields.
C24_CloseTitlesIsDrain ==
    (mode = "close" /\ pc = "done") =>
        \A drained \in DrainIterCloseTitles(first_link, min_distance, max_distance) :
            CandidatePairs = drained

\* No key occurs twice in path.
IsSimple(path) == \A i, j \in DOMAIN path : i /= j => path[i] /= path[j]

\* C25: every path in the frontier, yielded, or recorded as a candidate is
\* simple, and every key of a frontier path but its last is in visited (a
\* successor is pushed only while it is not in visited).
C25_PathsSimple ==
    /\ \A p \in next_pages \cup discarded :
        /\ IsSimple(p.path)
        /\ \A k \in 1 .. (Len(p.path) - 1) : p.path[k] \in visited
    /\ \A i \in DOMAIN yielded : IsSimple(yielded[i].path)
    /\ \A n \in DOMAIN link_to_path_info : IsSimple(link_to_path_info[n].path)
    /\ \A r \in sample : IsSimple(r.path)

\* On a store whose start links to itself, a two-hop path was yielded for a
\* node that links back to the start and to the node before it.
C25_Witness ==
    /\ mode = "iter"
    /\ first_link \in DOMAIN link_to_page
    /\ first_link \in DOMAIN link_to_page[first_link]
    /\ \E i \in DOMAIN yielded :
        /\ Len(yielded[i].path) = 3
        /\ yielded[i].node \in DOMAIN link_to_page
        /\ {first_link, yielded[i].path[2], yielded[i].node}
                \subseteq DOMAIN link_to_page[yielded[i].node]

(***************************************************************************)
(* C26: the reader's article count.                                        *)
(***************************************************************************)

\* C26: after a successful open, article_count() is the article_count
\* field of the header.
C26_ArticleCountIsHeaderCount ==
    reader.status = "ok" => article_count(reader) = reader.header.article_count

====
